---- MODULE Spec2Model ----
(***************************************************************************)
(* Pomodoro Pro: the timer / stage state machine of src/src/app/page.js.   *)
(*                                                                         *)
(* The component `Home` keeps five pieces of React state (durations,       *)
(* currentStage, timeRemaining, isRunning, completedFocusSessions), three  *)
(* effects (interval, completion, resync) and six event handlers.          *)
(*                                                                         *)
(* React is modelled as follows.  A handler queues state updates, React    *)
(* renders and commits them in one batch, and then runs every effect one   *)
(* of whose dependencies changed, in declaration order; updates queued by  *)
(* the effects are committed the same way until nothing changes.  For a    *)
(* user event (click, input) all of this happens before the next event,    *)
(* so a command is one action.  For a render caused by the interval        *)
(* callback the effects are flushed in a later task: the commit of a       *)
(* zero-crossing tick and the completion effect it triggers are two steps, *)
(* and the state between them is the transient state (isRunning,           *)
(* timeRemaining = 0).  Commands are applied to settled states only.       *)
(***************************************************************************)
EXTENDS Integers, Sequences, FiniteSets, TLC

(***************************************************************************)
(* Bounds of the model.                                                    *)
(***************************************************************************)
\* completedFocusSessions is unbounded in the code; runs are cut here.
MaxCompleted == 4

\* SpecWide follows a countdown only from this many seconds down.
MaxTicking == 60

(***************************************************************************)
(* Static data and pure helpers (page.js 6-21).                            *)
(***************************************************************************)
\* The labels are the readings of the Japanese labels in Latin letters.
STAGES ==
  [ focus      |-> [key |-> "focus",      label |-> "shuchu",    minutes |-> 25],
    shortBreak |-> [key |-> "shortBreak", label |-> "shokyukei", minutes |-> 5],
    longBreak  |-> [key |-> "longBreak",  label |-> "chokyukei", minutes |-> 15] ]

STAGE_ORDER == <<"focus", "shortBreak", "longBreak">>

StageKeys == {STAGE_ORDER[i] : i \in DOMAIN STAGE_ORDER}

LONG_BREAK_INTERVAL == 4

\* The JavaScript number NaN, as a value of timeRemaining and of a duration
\* lookup.  Every other value of these is a non-negative integer.
NaN == -1

\* durations[stage]: `undefined` for a key the object does not have, which
\* arithmetic turns into NaN.
Lookup(d, stage) == IF stage \in DOMAIN d THEN d[stage] ELSE NaN

toSeconds(minutes) == IF minutes = NaN THEN NaN ELSE minutes * 60

Min2(a, b) == IF a <= b THEN a ELSE b
Max2(a, b) == IF a >= b THEN a ELSE b

\* clamp without its upper bound.
clampNoMax(value, min, max) == Max2(value, min)

clamp(value, min, max) == Min2(Max2(value, min), max)

\* Math.round on a number given in tenths: floor(x + 0.5).
MathRound(tenths) == (tenths + 5) \div 10

(***************************************************************************)
(* Number(value ?? 0) on the text of the duration input.  A text is a      *)
(* sequence of characters; the result is <<isNaN, value in tenths>>.       *)
(* Grammar covered: optional "-", digits, optional "." and one digit; the  *)
(* empty text is 0; anything else is NaN.                                  *)
(***************************************************************************)
Digits == <<"0", "1", "2", "3", "4", "5", "6", "7", "8", "9">>

IsDigit(c) == \E i \in DOMAIN Digits : Digits[i] = c

DigitValue(c) == (CHOOSE i \in DOMAIN Digits : Digits[i] = c) - 1

RECURSIVE DigitsValue(_)
DigitsValue(text) ==
  IF text = <<>> THEN 0
  ELSE DigitsValue(SubSeq(text, 1, Len(text) - 1)) * 10 + DigitValue(text[Len(text)])

AllDigits(text) == \A i \in DOMAIN text : IsDigit(text[i])

\* An unsigned decimal literal: digits, or digits "." digit.
UnsignedNumber(text) ==
  IF text # <<>> /\ AllDigits(text)
    THEN <<FALSE, DigitsValue(text) * 10>>
  ELSE IF Len(text) >= 3 /\ text[Len(text) - 1] = "."
          /\ AllDigits(SubSeq(text, 1, Len(text) - 2)) /\ IsDigit(text[Len(text)])
    THEN <<FALSE, DigitsValue(SubSeq(text, 1, Len(text) - 2)) * 10 + DigitValue(text[Len(text)])>>
  ELSE <<TRUE, 0>>

Number(text) ==
  IF text = <<>> THEN <<FALSE, 0>>
  ELSE IF text[1] = "-"
    THEN LET u == UnsignedNumber(Tail(text)) IN <<u[1], 0 - u[2]>>
  ELSE UnsignedNumber(text)

(***************************************************************************)
(* formatTime (page.js 17-21).  A text is a sequence of characters.        *)
(***************************************************************************)
\* String(n) of a non-negative integer or NaN.
RECURSIVE String(_)
String(n) ==
  IF n = NaN THEN <<"N", "a", "N">>
  ELSE IF n < 10 THEN <<Digits[n + 1]>>
  ELSE Append(String(n \div 10), Digits[(n % 10) + 1])

RECURSIVE padStart(_, _, _)
padStart(text, targetLength, padString) ==
  IF Len(text) >= targetLength THEN text
  ELSE padStart(<<padString>> \o text, targetLength, padString)

\* Math.floor(NaN / 60) and NaN % 60 are NaN.
formatTime(seconds) ==
  LET mins == IF seconds = NaN THEN NaN ELSE seconds \div 60
      secs == IF seconds = NaN THEN NaN ELSE seconds % 60
  IN  padStart(String(mins), 2, "0") \o <<":">> \o padStart(String(secs), 2, "0")

(***************************************************************************)
(* The state of the component (page.js 24-34) and of the interval timers   *)
(* it has scheduled.                                                       *)
(***************************************************************************)
VARIABLES
  durations,               \* stage key -> minutes
  currentStage,            \* a stage key
  timeRemaining,           \* seconds, or NaN
  isRunning,               \* boolean
  completedFocusSessions,  \* focus stages completed since the last reset
  timers,                  \* number of live setInterval timers
  effectsPending,          \* a timer-driven commit whose effects have not run yet
  lastEvent,               \* the handler or callback that ran last
  ticks                    \* interval callbacks since the countdown in flight began

vars == <<durations, currentStage, timeRemaining, isRunning,
          completedFocusSessions, timers, effectsPending, lastEvent, ticks>>

\* The React state as one record, as a render sees it.
State ==
  [ durations |-> durations,
    currentStage |-> currentStage,
    timeRemaining |-> timeRemaining,
    isRunning |-> isRunning,
    completedFocusSessions |-> completedFocusSessions ]

DefaultDurations == [stage \in StageKeys |-> STAGES[stage].minutes]

InitialState ==
  [ durations |-> DefaultDurations,
    currentStage |-> "focus",
    timeRemaining |-> toSeconds(STAGES.focus.minutes),
    isRunning |-> FALSE,
    completedFocusSessions |-> 0 ]

(***************************************************************************)
(* goToStage and handleStageCompletion (page.js 36-44, 64-77), as          *)
(* functions from the state a render sees to the state its queued updates  *)
(* produce.                                                                *)
(***************************************************************************)
goToStage(s, stage, autoStart) ==
  [s EXCEPT !.currentStage = stage,
            !.timeRemaining = toSeconds(Lookup(s.durations, stage)),
            !.isRunning = autoStart]

\* A long break after every third focus stage.
NextAfterFocusEveryThird(next) ==
  IF next % 3 = 0 THEN "longBreak" ELSE "shortBreak"

\* The long break decided from the count before the increment.
NextAfterFocusStale(next) ==
  IF (next - 1) % LONG_BREAK_INTERVAL = 0 THEN "longBreak" ELSE "shortBreak"

NextAfterFocus(next) ==
  IF next % LONG_BREAK_INTERVAL = 0 THEN "longBreak" ELSE "shortBreak"

\* A completion that counts every stage, not only focus.
handleStageCompletionCountsAll(s) ==
  LET next == s.completedFocusSessions + 1
  IN  IF s.currentStage = "focus"
        THEN [goToStage(s, NextAfterFocus(next), TRUE)
                EXCEPT !.completedFocusSessions = next]
        ELSE [goToStage(s, "focus", TRUE) EXCEPT !.completedFocusSessions = next]

handleStageCompletion(s) ==
  IF s.currentStage = "focus"
    THEN LET next == s.completedFocusSessions + 1
         IN  [goToStage(s, NextAfterFocus(next), TRUE)
                EXCEPT !.completedFocusSessions = next]
    ELSE goToStage(s, "focus", TRUE)

(***************************************************************************)
(* The three effects (page.js 46-62, 79-85, 87-93).  `changed` is the set  *)
(* of state names whose value differs from the previous commit; an effect  *)
(* runs when one of its dependencies is in it.  A result is the state      *)
(* after the effects' updates and the number of live timers.               *)
(***************************************************************************)
StateNames == {"durations", "currentStage", "timeRemaining", "isRunning",
               "completedFocusSessions"}

Changed(old, new) == {f \in StateNames : old[f] # new[f]}

\* Interval effect, dependencies [isRunning]: the cleanup of the previous
\* run clears its timer (if it has not cleared itself), then a timer is
\* created when isRunning.
\* An effect without the cleanup.
IntervalEffectLeaks(s, changed, tm) ==
  IF "isRunning" \in changed /\ s.isRunning THEN tm + 1 ELSE tm

IntervalEffect(s, changed, tm) ==
  IF "isRunning" \in changed
    THEN IF s.isRunning THEN tm + 1
         ELSE IF tm > 0 THEN tm - 1 ELSE 0
    ELSE tm

\* Completion effect, dependencies [handleStageCompletion, isRunning,
\* timeRemaining]; handleStageCompletion changes with currentStage and
\* durations.  The test is !(timeRemaining > 0), which NaN passes.
CompletionDeps == {"currentStage", "durations", "isRunning", "timeRemaining"}

CompletionEffect(s, changed) ==
  IF changed \cap CompletionDeps # {}
     /\ s.isRunning /\ ~(s.timeRemaining # NaN /\ s.timeRemaining > 0)
    THEN handleStageCompletion(s)
    ELSE s

\* Resync effect, dependencies [currentStage, durations, isRunning].
ResyncDeps == {"currentStage", "durations", "isRunning"}

\* An effect that never resynchronises.
ResyncEffectOff(s, changed) == s

ResyncEffect(s, changed) ==
  IF changed \cap ResyncDeps # {} /\ ~s.isRunning
    THEN [s EXCEPT !.timeRemaining = toSeconds(Lookup(s.durations, s.currentStage))]
    ELSE s

\* One flush of the effects of a commit.  The completion effect acts only
\* when isRunning and the resync effect only when not, and both read the
\* state of the same render.
\* A flush whose resync does not look at isRunning.
RunEffectsResyncRunning(s, changed, tm) ==
  [ st |-> IF changed \cap ResyncDeps # {}
             THEN [s EXCEPT !.timeRemaining =
                              toSeconds(Lookup(s.durations, s.currentStage))]
             ELSE CompletionEffect(s, changed),
    timers |-> IntervalEffect(s, changed, tm) ]

RunEffects(s, changed, tm) ==
  [ st |-> IF s.isRunning THEN CompletionEffect(s, changed)
                          ELSE ResyncEffect(s, changed),
    timers |-> IntervalEffect(s, changed, tm) ]

\* Commit `new` over `old` and run effects until no update is left.
\* `touched` names state that was set to a new object of equal value.
RECURSIVE Commit(_, _, _, _)
Commit(old, new, touched, tm) ==
  LET changed == Changed(old, new) \cup touched
  IN  IF changed = {} THEN [st |-> new, timers |-> tm]
      ELSE LET r == RunEffects(new, changed, tm)
           IN  Commit(new, r.st, {}, r.timers)

(***************************************************************************)
(* The event handlers (page.js 95-138) and the interval callback           *)
(* (page.js 51-59), as functions on the state.                             *)
(***************************************************************************)
\* A handler that takes a text that is not a number for 0.
handleDurationChangeNaNAsZero(s, stage, value) ==
  LET numeric == Number(value)
  IN  [s EXCEPT !.durations[stage] =
                  clamp(MathRound(IF numeric[1] THEN 0 ELSE numeric[2]), 1, 90)]

handleDurationChange(s, stage, value) ==
  LET numeric == Number(value)
  IN  IF numeric[1] THEN s
      ELSE [s EXCEPT !.durations[stage] = clamp(MathRound(numeric[2]), 1, 90)]

\* setDurations is called (with a new object) unless the handler returned.
DurationTouched(value) == IF Number(value)[1] THEN {} ELSE {"durations"}

\* A key is what Tabs passes to onSelectionChange: a string or a number.
\* A stage change that starts the timer of the new stage.
handleManualStageChangeAutoStart(s, key) ==
  IF key.type # "string" THEN s
  ELSE goToStage([s EXCEPT !.isRunning = FALSE], key.value, TRUE)

handleManualStageChange(s, key) ==
  IF key.type # "string" THEN s
  ELSE goToStage([s EXCEPT !.isRunning = FALSE], key.value, FALSE)

handleStartPause(s) == [s EXCEPT !.isRunning = ~s.isRunning]

\* A skip that stops the timer after the completion instead of before it.
handleSkipThenStop(s) == [handleStageCompletion(s) EXCEPT !.isRunning = FALSE]

handleSkip(s) == handleStageCompletion([s EXCEPT !.isRunning = FALSE])

\* A reset that leaves the durations as they are.
handleResetKeepsDurations(s) == [InitialState EXCEPT !.durations = s.durations]

handleReset(s) == InitialState

\* The updater passed to setTimeRemaining by the interval callback.
\* An updater that counts down two seconds at a time.
TickUpdaterByTwo(prev) ==
  IF prev # NaN /\ prev <= 1 THEN 0
  ELSE IF prev = NaN THEN NaN ELSE prev - 2

TickUpdater(prev) ==
  IF prev # NaN /\ prev <= 1 THEN 0
  ELSE IF prev = NaN THEN NaN ELSE prev - 1

\* Whether the updater calls clearInterval(timer).
TickClears(prev) == prev # NaN /\ prev <= 1

(***************************************************************************)
(* Derived values of a render (page.js 140-171).  progressValue is a       *)
(* fraction, kept exact as <<isNaN, numerator, denominator>> with a        *)
(* positive denominator.                                                   *)
(***************************************************************************)
formattedTime(s) == formatTime(s.timeRemaining)

totalSeconds(s) == toSeconds(Lookup(s.durations, s.currentStage))

progressValue(s) ==
  LET total == totalSeconds(s)
  IN  IF total = 0 THEN <<FALSE, 0, 1>>
      ELSE IF total = NaN \/ s.timeRemaining = NaN THEN <<TRUE, 0, 1>>
      ELSE IF (total - s.timeRemaining) * 100 >= 100 * total THEN <<FALSE, 100, 1>>
      ELSE <<FALSE, (total - s.timeRemaining) * 100, total>>

\* A number of focus stages that is one short.
remainingBeforeLongBreakOneShort(s) ==
  LONG_BREAK_INTERVAL - ((s.completedFocusSessions + 1) % LONG_BREAK_INTERVAL)

remainingBeforeLongBreak(s) ==
  LET completedInCycle == s.completedFocusSessions % LONG_BREAK_INTERVAL
  IN  IF completedInCycle = 0 THEN LONG_BREAK_INTERVAL
      ELSE LONG_BREAK_INTERVAL - completedInCycle

\* The label of the stage shown as next (page.js 164-171).
\* A prediction made from the count as it is, without the increment.
nextStageLabelStale(s) ==
  IF s.currentStage = "focus"
    THEN LET willLongBreak == s.completedFocusSessions % LONG_BREAK_INTERVAL = 0
         IN  STAGES[IF willLongBreak THEN "longBreak" ELSE "shortBreak"].label
    ELSE STAGES.focus.label

nextStageLabel(s) ==
  IF s.currentStage = "focus"
    THEN LET willLongBreak == (s.completedFocusSessions + 1) % LONG_BREAK_INTERVAL = 0
         IN  STAGES[IF willLongBreak THEN "longBreak" ELSE "shortBreak"].label
    ELSE STAGES.focus.label

(***************************************************************************)
(* A command as a whole: the handler, the commit and the effects.          *)
(***************************************************************************)
AfterDurationChange(s, tm, stage, value) ==
  Commit(s, handleDurationChange(s, stage, value), DurationTouched(value), tm)

AfterManualStageChange(s, tm, key) ==
  Commit(s, handleManualStageChange(s, key), {}, tm)

AfterStartPause(s, tm) == Commit(s, handleStartPause(s), {}, tm)

AfterSkip(s, tm) == Commit(s, handleSkip(s), {}, tm)

AfterReset(s, tm) == Commit(s, handleReset(s), {"durations"}, tm)

(***************************************************************************)
(* Inputs of the handlers.                                                 *)
(***************************************************************************)
\* Texts typed into a duration input: empty (0, below the range) and a
\* fraction that rounds down.
Values == { <<>>, <<"1", ".", "4">> }

\* Further texts: a fraction that rounds up, a negative number, a number
\* above the range, and two texts that are not numbers.
WideValues ==
  Values \cup { <<"8", "9", ".", "5">>, <<"-", "3">>, <<"1", "5", "0">>,
                <<"a", "b", "c">>, <<"1", "2", "x">> }

\* Keys no tab has: a string that is no stage, and a number.
OtherKeys == {[type |-> "string", value |-> "bogus"], [type |-> "number", value |-> "0"]}

\* Keys of the rendered tabs.
TabKeys == {[type |-> "string", value |-> stage] : stage \in StageKeys}

(***************************************************************************)
(* Init and the actions.                                                   *)
(***************************************************************************)
Init ==
  /\ durations = InitialState.durations
  /\ currentStage = InitialState.currentStage
  /\ timeRemaining = InitialState.timeRemaining
  /\ isRunning = InitialState.isRunning
  /\ completedFocusSessions = InitialState.completedFocusSessions
  /\ timers = 0
  /\ effectsPending = FALSE
  /\ lastEvent = "init"
  /\ ticks = 0

\* The settled result r of a handler becomes the next state.  The countdown
\* in flight goes on when the timer keeps running with the same stage and
\* remaining time; otherwise a countdown begins.
Apply(r, event) ==
  /\ r.st.completedFocusSessions <= MaxCompleted
  /\ durations' = r.st.durations
  /\ currentStage' = r.st.currentStage
  /\ timeRemaining' = r.st.timeRemaining
  /\ isRunning' = r.st.isRunning
  /\ completedFocusSessions' = r.st.completedFocusSessions
  /\ timers' = r.timers
  /\ effectsPending' = FALSE
  /\ lastEvent' = event
  /\ ticks' = IF /\ isRunning /\ r.st.isRunning
                 /\ r.st.currentStage = currentStage
                 /\ r.st.timeRemaining = timeRemaining
               THEN ticks ELSE 0

DurationChange(stage, value) ==
  /\ ~effectsPending
  /\ Apply(AfterDurationChange(State, timers, stage, value),
           IF Number(value)[1] THEN "durationRejected" ELSE "durationChange")

ManualStageChange(key) ==
  /\ ~effectsPending
  /\ Apply(AfterManualStageChange(State, timers, key),
           "manualStageChange")

StartPause ==
  /\ ~effectsPending
  /\ Apply(AfterStartPause(State, timers),
           IF isRunning THEN "pause" ELSE "start")

Skip ==
  /\ ~effectsPending
  /\ Apply(AfterSkip(State, timers), "skip")

Reset ==
  /\ ~effectsPending
  /\ Apply(AfterReset(State, timers), "reset")

\* One firing of a live interval timer.  The effects of the render it
\* causes are flushed later; only the completion effect of a zero-crossing
\* render has anything to do.
Tick ==
  /\ timers > 0
  /\ ~effectsPending
  /\ timeRemaining' = TickUpdater(timeRemaining)
  /\ timers' = IF TickClears(timeRemaining) THEN timers - 1 ELSE timers
  /\ effectsPending' =
       (CompletionEffect([State EXCEPT !.timeRemaining = TickUpdater(timeRemaining)],
                         {"timeRemaining"})
          # [State EXCEPT !.timeRemaining = TickUpdater(timeRemaining)])
  /\ lastEvent' = "tick"
  /\ ticks' = ticks + 1
  /\ UNCHANGED <<durations, currentStage, isRunning, completedFocusSessions>>

\* The deferred effects of a zero-crossing tick.
FlushEffects ==
  /\ effectsPending
  /\ LET r == RunEffects(State, {"timeRemaining"}, timers)
     IN  Apply(Commit(State, r.st, {}, r.timers), "completion")

Next ==
  \/ \E stage \in StageKeys, value \in Values : DurationChange(stage, value)
  \/ \E key \in TabKeys : ManualStageChange(key)
  \/ StartPause
  \/ Skip
  \/ Reset
  \/ Tick
  \/ FlushEffects

Spec == Init /\ [][Next]_vars

\* The same machine with the wider set of duration texts; countdowns are
\* followed for their last MaxTicking seconds only.
TickShort == timeRemaining <= MaxTicking /\ Tick

NextWide ==
  \/ \E stage \in StageKeys, value \in WideValues : DurationChange(stage, value)
  \/ \E key \in TabKeys : ManualStageChange(key)
  \/ StartPause
  \/ Skip
  \/ Reset
  \/ TickShort
  \/ FlushEffects

SpecWide == Init /\ [][NextWide]_vars

\* The same machine when onSelectionChange is also called with keys that
\* are not tabs.
NextKeys ==
  \/ Next
  \/ \E key \in OtherKeys : ManualStageChange(key)

SpecKeys == Init /\ [][NextKeys]_vars

\* One run of the freshly mounted component: the focus tab is selected,
\* the timer is started and the interval fires until the countdown is over.
SelectFocus ==
  /\ lastEvent = "init"
  /\ ManualStageChange([type |-> "string", value |-> "focus"])

StartOnce == lastEvent = "manualStageChange" /\ StartPause

NextCountdown ==
  \/ SelectFocus
  \/ StartOnce
  \/ Tick
  \/ FlushEffects

SpecCountdown == Init /\ [][NextCountdown]_vars

TypeOK ==
  /\ durations \in [StageKeys -> 1..90]
  /\ timeRemaining \in Nat
  /\ isRunning \in BOOLEAN
  /\ completedFocusSessions \in 0..MaxCompleted
  /\ timers \in Nat
  /\ effectsPending \in BOOLEAN
  /\ ticks \in Nat

(***************************************************************************)
(* Properties.                                                             *)
(***************************************************************************)

\* C1: whenever running is true (and no completion is pending) an interval
\* timer is scheduled, so that the countdown of the stage keeps ticking.
C1_RunningIsTicking == (isRunning /\ ~effectsPending) => timers > 0

\* C2: a step taken from the state where the countdown has reached zero
\* while running is one stage completion: from focus the count grows by
\* one and the stage is the long break when the new count is a multiple of
\* four and the short break otherwise; from a break the stage is focus and
\* the count is unchanged; afterwards the timer is running with the full
\* duration of the new stage, so the completion is not triggered again.
C2_ZeroCrossingAdvancesOnce ==
  [][ (isRunning /\ timeRemaining = 0) =>
        /\ IF currentStage = "focus"
             THEN /\ completedFocusSessions' = completedFocusSessions + 1
                  /\ currentStage' =
                       IF completedFocusSessions' % 4 = 0 THEN "longBreak"
                                                          ELSE "shortBreak"
             ELSE /\ completedFocusSessions' = completedFocusSessions
                  /\ currentStage' = "focus"
        /\ isRunning'
        /\ durations' = durations
        /\ timeRemaining' = durations'[currentStage'] * 60
        /\ timeRemaining' > 0
        /\ ~effectsPending' ]_vars

\* C2 witness: the fourth focus stage has counted down to zero and the
\* completion has put the timer in the long break, running, at 900.
C2_Witness ==
  /\ lastEvent = "completion"
  /\ completedFocusSessions = 4
  /\ currentStage = "longBreak"
  /\ isRunning
  /\ timeRemaining = 900

\* C3: from any settled state, start/pause pressed twice gives back the
\* same state.
C3_ToggleTwiceIsIdentity ==
  ~effectsPending =>
    LET once == AfterStartPause(State, timers)
        twice == AfterStartPause(once.st, once.timers)
    IN  twice.st = State

\* C4: outside the transient state (running at zero), the remaining time
\* is at most the duration of the current stage.
C4_RemainingWithinDuration ==
  ~(isRunning /\ timeRemaining = 0) =>
     timeRemaining <= durations[currentStage] * 60

\* C5 (as stated): the count grows only by the completion that follows a
\* focus countdown reaching zero, and only reset makes it smaller.
C5_CountGrowsOnlyAtZero ==
  [][ /\ completedFocusSessions' > completedFocusSessions =>
           (lastEvent' = "completion" /\ currentStage = "focus")
      /\ completedFocusSessions' < completedFocusSessions =>
           lastEvent' = "reset" ]_vars

\* C5 (amended): the count grows only when a focus stage is completed, by
\* its countdown reaching zero or by skip; no duration change, stage
\* selection, start/pause, tick, or skip or completion of a break makes it
\* grow; only reset makes it smaller.
C5_CountGrowsOnlyOnFocusCompletion ==
  [][ /\ completedFocusSessions' > completedFocusSessions =>
           (lastEvent' \in {"completion", "skip"} /\ currentStage = "focus")
      /\ completedFocusSessions' < completedFocusSessions =>
           lastEvent' = "reset" ]_vars

\* C5 witness: skip has ended a focus stage in the middle of its countdown
\* and the count is now 2.
C5_Witness ==
  /\ lastEvent = "skip"
  /\ completedFocusSessions = 2
  /\ currentStage = "shortBreak"

\* C6: progressValue is a number between 0 and 100.
C6_ProgressInRange ==
  LET p == progressValue(State)
  IN  ~p[1] /\ 0 <= p[2] /\ p[2] <= 100 * p[3]

\* C7: every duration is an integer from 1 to 90, and a duration change
\* with a number stores the nearest integer (halves upwards) clamped to
\* 1..90 in the entry of its stage and leaves the other entries alone;
\* "150" stores 90.
C7_DurationsRoundedAndClamped ==
  /\ DOMAIN durations = {"focus", "shortBreak", "longBreak"}
  /\ \A stage \in DOMAIN durations : durations[stage] \in 1..90
  /\ ~effectsPending =>
       \A stage \in StageKeys, value \in WideValues :
         LET after == AfterDurationChange(State, timers, stage, value).st.durations
             tenths == Number(value)[2]
         IN  /\ \A other \in StageKeys \ {stage} : after[other] = durations[other]
             /\ ~Number(value)[1] =>
                  \/ after[stage] = 1 /\ tenths < 15
                  \/ after[stage] = 90 /\ tenths >= 895
                  \/ /\ 1 < after[stage] /\ after[stage] < 90
                     /\ -5 < 10 * after[stage] - tenths
                     /\ 10 * after[stage] - tenths <= 5
             /\ value = <<"1", "5", "0">> => after[stage] = 90

\* C7 witness: "150" was typed for the running stage and 90 is stored.
C7_Witness ==
  /\ lastEvent = "durationChange"
  /\ isRunning
  /\ durations[currentStage] = 90

\* C8: a duration change with a text that is not a number changes nothing,
\* neither the state nor the timers, whether running or paused.
C8_NonNumericIsNoOp ==
  /\ [](~effectsPending =>
          \A stage \in StageKeys, value \in {<<"a", "b", "c">>, <<"1", "2", "x">>} :
            AfterDurationChange(State, timers, stage, value)
              = [st |-> State, timers |-> timers])
  /\ [][ lastEvent' = "durationRejected" =>
           UNCHANGED <<durations, currentStage, timeRemaining, isRunning,
                       completedFocusSessions, timers, effectsPending>> ]_vars

\* C8 witness: a text that is not a number was typed in the middle of a
\* running countdown.
C8_Witness ==
  /\ lastEvent = "durationRejected"
  /\ isRunning
  /\ 0 < timeRemaining
  /\ timeRemaining < durations[currentStage] * 60

\* C9: stage changes with keys that are no stage are ignored: the current
\* stage is always one of the three stages and the remaining time is
\* always a non-negative integer.
C9_InvalidKeyIgnored ==
  /\ currentStage \in {"focus", "shortBreak", "longBreak"}
  /\ timeRemaining \in Nat

\* C10: right after reset the state is the initial one (focus, paused,
\* count 0, durations 25/5/15, 1500 seconds), and while the timer is not
\* running no interval timer is live, so no tick can change the state.
C10_ResetRestoresInitial ==
  /\ lastEvent = "reset" =>
       /\ currentStage = "focus"
       /\ isRunning = FALSE
       /\ completedFocusSessions = 0
       /\ durations = [focus |-> 25, shortBreak |-> 5, longBreak |-> 15]
       /\ timeRemaining = 1500
       /\ ~effectsPending
  /\ ~isRunning => (timers = 0 /\ ~ENABLED Tick)

\* C10 witness: reset has been pressed.
C10_Witness ==
  /\ lastEvent = "reset"
  /\ timers = 0
  /\ timeRemaining = 1500

\* C11: skip, from any settled state, running or paused and at any
\* remaining time, is one stage completion: from focus the count grows by
\* one and the stage is the long break when the new count is a multiple of
\* four and the short break otherwise, from a break the stage is focus and
\* the count is unchanged; afterwards the timer is running with the full
\* duration of the new stage.
C11_SkipAdvancesAndRuns ==
  [][ lastEvent' = "skip" =>
        /\ IF currentStage = "focus"
             THEN /\ completedFocusSessions' = completedFocusSessions + 1
                  /\ currentStage' =
                       IF completedFocusSessions' % 4 = 0 THEN "longBreak"
                                                          ELSE "shortBreak"
             ELSE /\ completedFocusSessions' = completedFocusSessions
                  /\ currentStage' = "focus"
        /\ isRunning'
        /\ durations' = durations
        /\ timeRemaining' = durations'[currentStage'] * 60 ]_vars

\* C11 witness: skip has ended a break; focus is running at its full 1500
\* seconds with a live timer.
C11_Witness ==
  /\ lastEvent = "skip"
  /\ currentStage = "focus"
  /\ completedFocusSessions = 1
  /\ isRunning
  /\ timers = 1
  /\ timeRemaining = 1500

C13_PredictionMatchesTransition ==
  [][ lastEvent' \in {"skip", "completion"} =>
        /\ nextStageLabel(State) = STAGES[currentStage'].label
        /\ \A other \in StageKeys \ {currentStage'} :
             nextStageLabel(State) # STAGES[other].label
        /\ currentStage # "focus" => nextStageLabel(State) = STAGES.focus.label ]_vars

\* C13 witness: the first focus countdown has reached zero and the short
\* break, which the label named, has begun.
C13_Witness ==
  /\ lastEvent = "completion"
  /\ completedFocusSessions = 1
  /\ currentStage = "shortBreak"
  /\ nextStageLabel(State) = "shuchu"

\* C14: selecting the tab of a stage, from any settled state, stops the
\* timer, makes that stage current with its full duration remaining, and
\* leaves the count of focus sessions and the durations as they were.
C14_ManualStageChangeEffect ==
  [][ \A key \in TabKeys :
        (lastEvent' = "manualStageChange" /\ ManualStageChange(key)) =>
          /\ ~isRunning'
          /\ timers' = 0
          /\ currentStage' = key.value
          /\ timeRemaining' = durations[key.value] * 60
          /\ completedFocusSessions' = completedFocusSessions
          /\ durations' = durations ]_vars

\* C14 witness: the long break was selected after two focus sessions.
C14_Witness ==
  /\ lastEvent = "manualStageChange"
  /\ currentStage = "longBreak"
  /\ completedFocusSessions = 2
  /\ ~isRunning
  /\ timeRemaining = 900

C16_OneTimerExactDecrement ==
  /\ [](timers <= 1 /\ (~isRunning => timers = 0))
  /\ [][ lastEvent' = "tick" =>
           /\ isRunning
           /\ timers = 1
           /\ timeRemaining > 1 =>
                /\ timeRemaining' = timeRemaining - 1
                /\ timers' = timers
                /\ ~effectsPending'
                /\ UNCHANGED <<durations, currentStage, isRunning,
                               completedFocusSessions>> ]_vars

\* C16 witness: two ticks into a focus countdown, with one timer live.
C16_Witness ==
  /\ lastEvent = "tick"
  /\ isRunning
  /\ timers = 1
  /\ currentStage = "focus"
  /\ timeRemaining = 1498

\* C17 as stated: with the default durations, selecting focus, starting the
\* timer and 25 ticks leave 1499 seconds, shown as "24:59".
C17_After25Ticks1499 ==
  (lastEvent = "tick" /\ ticks = 25) =>
    /\ timeRemaining = 1499
    /\ formattedTime(State) = <<"2", "4", ":", "5", "9">>

\* C17: with the default durations, selecting focus, starting the timer
\* and 25 ticks leave 1475 seconds, shown as "24:35".
C17_After25Ticks1475 ==
  (lastEvent = "tick" /\ ticks = 25) =>
    /\ timeRemaining = 1475
    /\ formattedTime(State) = <<"2", "4", ":", "3", "5">>

\* C17 witness: the 25th tick of the run has happened.
C17_Witness ==
  /\ lastEvent = "tick"
  /\ ticks = 25
  /\ currentStage = "focus"
  /\ isRunning
  /\ durations = DefaultDurations

\* C19: in every settled state in which the timer is not running the
\* remaining time is the full duration of the current stage.
C19_PausedShowsFullDuration ==
  (~effectsPending /\ ~isRunning) =>
    timeRemaining = durations[currentStage] * 60

\* C19 witness: a short break that was running has been paused.
C19_Witness ==
  /\ lastEvent = "pause"
  /\ ~isRunning
  /\ currentStage = "shortBreak"
  /\ timeRemaining = 300

\* C20: the number of focus stages shown as left before the long break is
\* always 1, 2, 3 or 4, and is the number of further focus completions
\* after which the stage becomes the long break: the completions before
\* that one go to the short break.  On every completion of a focus stage
\* the next stage is the long break exactly when the number was 1, and the
\* number then starts again at 4; otherwise it goes down by one.
C20_RemainingAgreesWithTransitions ==
  /\ [](LET n == remainingBeforeLongBreak(State)
            Target(k) ==
              handleStageCompletion(
                [State EXCEPT !.currentStage = "focus",
                              !.completedFocusSessions = completedFocusSessions + k - 1]
              ).currentStage
        IN  /\ n \in 1..4
            /\ Target(n) = "longBreak"
            /\ \A k \in 1..(n - 1) : Target(k) = "shortBreak")
  /\ [][ (currentStage = "focus" /\ lastEvent' \in {"skip", "completion"}) =>
           /\ (currentStage' = "longBreak") <=> (remainingBeforeLongBreak(State) = 1)
           /\ remainingBeforeLongBreak(State)' =
                IF remainingBeforeLongBreak(State) = 1 THEN 4
                ELSE remainingBeforeLongBreak(State) - 1 ]_vars

\* C20 witness: three focus sessions are done and focus is current again,
\* so one more is shown as left; its completion is the long break.
C20_Witness ==
  /\ lastEvent = "completion"
  /\ currentStage = "focus"
  /\ completedFocusSessions = 3
  /\ remainingBeforeLongBreak(State) = 1

====
